---- MODULE Spec2Model ----
(***************************************************************************)
(* A model of the timing wheel of src/example/example.go (package          *)
(* timewheel, lines 23-249): the TimeWheel object, its control loop        *)
(* (start / tickHandler / scanAddRunTask / addTask) and the public calls   *)
(* AddTask, RemoveTask, UpdateTask and Stop, which run on the callers' own *)
(* goroutines.  The control loop and every caller are separate processes;  *)
(* a step of a process holds at most one access to memory that another     *)
(* process also accesses (task.times, task.interval, task.taskData, the    *)
(* taskRecord map, recordLock), so every interleaving of those accesses is *)
(* a behaviour of the model.  Program locations are named after the source *)
(* line they stand at ("L207" is the loop about to execute line 207).      *)
(***************************************************************************)
EXTENDS Integers, Sequences, FiniteSets, TLC

\* ---------------------------------------------------------------- bounds
\* Ticks the ticker delivers in a behaviour of Spec.
MaxTicks == 2
\* Public calls (AddTask, RemoveTask, UpdateTask, Stop) made in a behaviour;
\* every AddTask allocates at most one task object, so it bounds those too.
MaxCalls == 3
\* The dispatch counter of a task saturates here.
MaxFired == 3
\* Ticks and public calls in a behaviour of SpecTen.
TenTicks == 51
TenCalls == 2
\* In SpecTen the callers take their steps until this many ticks have begun;
\* from then on the wheel turns on its own.
TenActTicks == 0

\* time.Second, in the unit durations are counted in (half seconds).
Second == 2

Clients == {1, 2}
TaskIds == 1..MaxCalls
\* The nil key, the nil *task and the nil list element.
Nil == 0

VARIABLES
  env,         \* the values the callers draw their arguments from
  interval,    \* tw.interval
  slotNum,     \* tw.slotNum
  slots,       \* tw.slots: slot index -> the tasks of its list, front first
  currentPos,  \* tw.currentPos
  taskRecord,  \* tw.taskRecord: key -> task object (Nil: no entry)
  tickerOn,    \* tw.ticker is running
  tickC,       \* ticks buffered in tw.ticker.C (capacity 1)
  tasks,       \* the heap of task objects: id -> fields
  nTasks,      \* task objects allocated so far
  rlock,       \* callers holding recordLock for reading
  wlock,       \* the control loop holds recordLock for writing
  pc,          \* the control loop's location
  item,        \* scanAddRunTask: item (the list element, named by its task)
  task,        \* the loop's local variable task
  reg,         \* the value of task.times loaded by task.times-- (line 235)
  inScan,      \* addTask was called from scanAddRunTask (line 237)
  cpc,         \* each caller's location
  call,        \* each caller's current call and its arguments
  found,       \* each caller's local task pointer
  result,      \* what each caller's last call returned
  nCalls,      \* calls made so far
  tickNo,      \* ticks whose processing has begun
  fired,       \* task -> number of dispatches of its callback (saturating)
  delivered,   \* the payload handed to the callback by the last dispatch
  admitAt,     \* task -> tickNo when addTask last placed it in a slot
  admitSteps,  \* task -> the delay in ticks addTask last computed for it
  admitScan,   \* task -> that placement was a re-admission during a scan
  cancelled,   \* task -> a RemoveTask that found it has returned success
  remCalled,   \* task -> RemoveTask has been called with its key since it was built
  updated      \* task -> an UpdateTask has written one of its fields

wheelVars == <<interval, slotNum, slots, currentPos, taskRecord, tickerOn, tickC>>
lockVars == <<rlock, wlock>>
loopVars == <<pc, item, task, reg, inScan>>
callerVars == <<cpc, call, found, result, nCalls>>
histVars == <<tickNo, fired, delivered, admitAt, admitSteps, admitScan, cancelled,
              remCalled, updated>>
vars == <<env, wheelVars, tasks, nTasks, lockVars, loopVars, callerVars, histVars>>

\* ---------------------------------------------------------------- helpers
Min(a, b) == IF a < b THEN a ELSE b

\* Go's integer division and remainder truncate toward zero.
GoDiv(a, b) == IF a >= 0 THEN a \div b ELSE -((-a) \div b)
GoMod(a, b) == a - b * GoDiv(a, b)

\* int(d.Seconds()): the whole seconds of a duration, truncated toward zero.
Seconds(d) == GoDiv(d, Second)

\* The list element after t in list s (item.Next()), Nil at the back.
NextOf(s, t) ==
  LET i == CHOOSE j \in 1..Len(s) : s[j] = t
  IN  IF i = Len(s) THEN Nil ELSE s[i + 1]

\* l.Front()
Front(s) == IF Len(s) = 0 THEN Nil ELSE s[1]

\* l.Remove(item)
Remove(s, t) == SelectSeq(s, LAMBDA x : x # t)

NoTask == [interval |-> 0, times |-> 0, circle |-> 0, key |-> Nil, taskData |-> 0]
NoCall ==
  [op |-> "none", key |-> Nil, interval |-> 0, times |-> 0, data |-> 0, job |-> FALSE,
   sawTick |-> 0]

\* What a call notes when it blocks in its send (lines 119, 89): the number of
\* the tick that is already waiting in the ticker's channel, 0 if none is.
WaitingTick == IF tickC = 1 THEN tickNo + 1 ELSE 0

\* A slip getPositionAndCircle could have: the turns of the wheel are not
\* counted, so a delay longer than one turn fires at the first visit of its slot.
getPositionAndCircleNoCircle(d) ==
  LET delaySeconds == Seconds(d)
      intervalSeconds == Seconds(interval)
  IN  IF intervalSeconds = 0
      THEN [divZero |-> TRUE, pos |-> 0, circle |-> 0]
      ELSE [divZero |-> FALSE,
            circle |-> 0,
            pos |-> GoMod(currentPos + GoDiv(delaySeconds, intervalSeconds), slotNum)]

\* getPositionAndCircle (lines 243-249).  divZero: intervalSeconds is 0 and the
\* integer division panics.
getPositionAndCircle(d) ==
  LET delaySeconds == Seconds(d)
      intervalSeconds == Seconds(interval)
  IN  IF intervalSeconds = 0
      THEN [divZero |-> TRUE, pos |-> 0, circle |-> 0]
      ELSE [divZero |-> FALSE,
            circle |-> GoDiv(GoDiv(delaySeconds, intervalSeconds), slotNum),
            pos |-> GoMod(currentPos + GoDiv(delaySeconds, intervalSeconds), slotNum)]

\* The delay in ticks that getPositionAndCircle uses for a duration.
delaySteps(d) == GoDiv(Seconds(d), Seconds(interval))

\* A slip the parameter check could have: times == 0 is let through.
illegalParamsZeroPasses(iv, n, k, job) == iv <= 0 \/ k = Nil \/ ~job \/ n < -1

\* AddTask's parameter check (line 108).
illegalParams(iv, n, k, job) == iv <= 0 \/ k = Nil \/ ~job \/ n < -1 \/ n = 0

\* A panic on the loop's goroutine, or a fatal error of the runtime, ends the
\* program.
Alive == pc # "panic"

\* The callers begin their calls until env.actTicks ticks have begun.
CallBegins == Alive /\ tickNo <= env.actTicks

\* The callers' goroutines run (until env.actTicks ticks have begun; with
\* env.endless a call that has begun always runs on).
CallerRuns == Alive /\ (env.endless \/ tickNo <= env.actTicks)

\* ---------------------------------------------------------------- Init
\* New (lines 62-79), for a wheel interval iv, n slots and the callers'
\* argument values e.
InitWith(iv, n, e) ==
  /\ env = e
  /\ interval = iv
  /\ slotNum = n
  /\ slots = [i \in 0..(n - 1) |-> <<>>]
  /\ currentPos = 0
  /\ taskRecord = [k \in e.keys |-> Nil]
  /\ tickerOn = FALSE
  /\ tickC = 0
  /\ tasks = [t \in TaskIds |-> NoTask]
  /\ nTasks = 0
  /\ rlock = {}
  /\ wlock = FALSE
  /\ pc = "new"
  /\ item = Nil
  /\ task = Nil
  /\ reg = 0
  /\ inScan = FALSE
  /\ cpc = [c \in Clients |-> "idle"]
  /\ call = [c \in Clients |-> NoCall]
  /\ found = [c \in Clients |-> Nil]
  /\ result = [c \in Clients |-> "none"]
  /\ nCalls = 0
  /\ tickNo = 0
  /\ fired = [t \in TaskIds |-> 0]
  /\ delivered = 0
  /\ admitAt = [t \in TaskIds |-> 0]
  /\ admitSteps = [t \in TaskIds |-> 0]
  /\ admitScan = [t \in TaskIds |-> FALSE]
  /\ cancelled = [t \in TaskIds |-> FALSE]
  /\ remCalled = [t \in TaskIds |-> FALSE]
  /\ updated = [t \in TaskIds |-> FALSE]

\* ---------------------------------------------------------------- Start, ticker
\* Start (lines 82-85): create the ticker and launch the loop.
Start ==
  /\ pc = "new"
  /\ pc' = "L94"
  /\ tickerOn' = TRUE
  /\ UNCHANGED <<env, interval, slotNum, slots, currentPos, taskRecord, tickC, tasks,
                 nTasks, lockVars, item, task, reg, inScan, callerVars, histVars>>

\* The ticker sends a tick; it is dropped when the channel's buffer is full.
\* With env.endless the ticker never runs out of ticks (and tickNo stops
\* counting at env.maxTicks).
Tick ==
  /\ Alive
  /\ tickerOn
  /\ tickC = 0
  /\ tickNo < env.maxTicks \/ env.endless
  /\ tickC' = 1
  /\ UNCHANGED <<env, interval, slotNum, slots, currentPos, taskRecord, tickerOn, tasks,
                 nTasks, lockVars, loopVars, callerVars, histVars>>

\* ---------------------------------------------------------------- control loop
\* Where addTask returns to: the scan loop (line 237) or the select (line 98).
addTaskReturn == IF inScan THEN "L204" ELSE "L94"

\* select, case <-tw.ticker.C (lines 95-96), and tickHandler up to the scan's
\* first element (lines 171-172, 204).
LoopTick ==
  /\ pc = "L94"
  /\ tickC = 1
  /\ tickC' = 0
  /\ tickNo' = Min(tickNo + 1, env.maxTicks)
  /\ item' = Front(slots[currentPos])
  /\ inScan' = TRUE
  /\ pc' = "L204"
  /\ UNCHANGED <<env, interval, slotNum, slots, currentPos, taskRecord, tickerOn, tasks,
                 nTasks, lockVars, task, reg, callerVars, fired, delivered, admitAt,
                 admitSteps, admitScan, cancelled, remCalled, updated>>

\* select, case task := <-tw.addTaskChannel (lines 97-98): the rendezvous with
\* caller c blocked in its send (line 119), whose AddTask then returns nil.
LoopRecvAdd(c) ==
  /\ pc = "L94"
  /\ cpc[c] = "A119"
  /\ task' = found[c]
  /\ inScan' = FALSE
  /\ pc' = "L182"
  /\ cpc' = [cpc EXCEPT ![c] = "idle"]
  /\ call' = [call EXCEPT ![c] = NoCall]
  /\ found' = [found EXCEPT ![c] = Nil]
  /\ result' = [result EXCEPT ![c] = "ok"]
  /\ UNCHANGED <<env, wheelVars, tasks, nTasks, lockVars, item, reg, nCalls, histVars>>

\* select, case <-tw.stopChannel (lines 99-101): the rendezvous with caller c
\* blocked in Stop's send (line 89); the ticker is stopped and the loop returns.
LoopRecvStop(c) ==
  /\ pc = "L94"
  /\ cpc[c] = "S89"
  /\ tickerOn' = FALSE
  /\ pc' = "exit"
  /\ cpc' = [cpc EXCEPT ![c] = "idle"]
  /\ call' = [call EXCEPT ![c] = NoCall]
  /\ result' = [result EXCEPT ![c] = "ok"]
  /\ UNCHANGED <<env, interval, slotNum, slots, currentPos, taskRecord, tickC, tasks,
                 nTasks, lockVars, item, task, reg, inScan, found, nCalls, histVars>>

\* The scan is over (line 204, item == nil): tickHandler advances the cursor
\* (lines 173-177) and the loop is back at its select.
ScanDone ==
  /\ pc = "L204"
  /\ item = Nil
  /\ currentPos' = IF currentPos = slotNum - 1 THEN 0 ELSE currentPos + 1
  /\ pc' = "L94"
  /\ inScan' = FALSE
  /\ task' = Nil
  /\ UNCHANGED <<env, interval, slotNum, slots, taskRecord, tickerOn, tickC, tasks,
                 nTasks, lockVars, item, reg, callerVars, histVars>>

\* Lines 204-221: take the element's task and read task.times; a task with
\* times == 0 is unlinked (and goes on to be deleted from the record), one
\* with circle > 0 has it decremented and is passed over, any other is due.
ScanItem ==
  /\ pc = "L204"
  /\ item # Nil
  /\ task' = item
  /\ IF tasks[item].times = 0
     THEN /\ slots' = [slots EXCEPT ![currentPos] = Remove(@, item)]
          /\ item' = NextOf(slots[currentPos], item)
          /\ pc' = "L210"
          /\ tasks' = tasks
     ELSE IF tasks[item].circle > 0
     THEN /\ tasks' = [tasks EXCEPT ![item].circle = @ - 1]
          /\ item' = NextOf(slots[currentPos], item)
          /\ pc' = "L204"
          /\ slots' = slots
     ELSE /\ pc' = "L223"
          /\ UNCHANGED <<tasks, item, slots>>
  /\ UNCHANGED <<env, interval, slotNum, currentPos, taskRecord, tickerOn, tickC,
                 nTasks, lockVars, reg, inScan, callerVars, histVars>>

\* recordLock.Lock() (lines 210, 230, 192): waits for the readers to leave.
LoopLock(from, to) ==
  /\ pc = from
  /\ rlock = {}
  /\ ~wlock
  /\ wlock' = TRUE
  /\ pc' = to
  /\ UNCHANGED <<env, wheelVars, tasks, nTasks, rlock, item, task, reg, inScan,
                 callerVars, histVars>>

\* delete(tw.taskRecord, task.key); recordLock.Unlock() (lines 211-212 and
\* 231-232), then on to the next element.
LoopDelete(from) ==
  /\ pc = from
  /\ taskRecord' = [taskRecord EXCEPT ![tasks[task].key] = Nil]
  /\ wlock' = FALSE
  /\ pc' = "L204"
  /\ task' = Nil
  /\ UNCHANGED <<env, interval, slotNum, slots, currentPos, tickerOn, tickC, tasks,
                 nTasks, rlock, item, reg, inScan, callerVars, histVars>>

\* Lines 223-226: dispatch the callback with task.taskData as it is now, take
\* the next element and unlink this one.
Dispatch ==
  /\ pc = "L223"
  /\ fired' = [fired EXCEPT ![task] = Min(@ + 1, env.maxFired)]
  /\ delivered' = tasks[task].taskData
  /\ item' = NextOf(slots[currentPos], task)
  /\ slots' = [slots EXCEPT ![currentPos] = Remove(@, task)]
  /\ pc' = "L228"
  /\ UNCHANGED <<env, interval, slotNum, currentPos, taskRecord, tickerOn, tickC, tasks,
                 nTasks, lockVars, task, reg, inScan, callerVars, tickNo, admitAt,
                 admitSteps, admitScan, cancelled, remCalled, updated>>

\* Line 228: if task.times == 1.
TestLastRun ==
  /\ pc = "L228"
  /\ pc' = IF tasks[task].times = 1 THEN "L229" ELSE "L234"
  /\ UNCHANGED <<env, wheelVars, tasks, nTasks, lockVars, item, task, reg, inScan,
                 callerVars, histVars>>

\* Line 229: task.times = 0.
SetExhausted ==
  /\ pc = "L229"
  /\ tasks' = [tasks EXCEPT ![task].times = 0]
  /\ pc' = "L230"
  /\ UNCHANGED <<env, wheelVars, nTasks, lockVars, item, task, reg, inScan,
                 callerVars, histVars>>

\* Line 234: if task.times > 0.
TestCounted ==
  /\ pc = "L234"
  /\ pc' = IF tasks[task].times > 0 THEN "L235" ELSE "L182"
  /\ UNCHANGED <<env, wheelVars, tasks, nTasks, lockVars, item, task, reg, inScan,
                 callerVars, histVars>>

\* Line 235, task.times--, is a load and a store of a field RemoveTask writes
\* without synchronisation: the load ...
DecrLoad ==
  /\ pc = "L235"
  /\ reg' = tasks[task].times
  /\ pc' = "L235w"
  /\ UNCHANGED <<env, wheelVars, tasks, nTasks, lockVars, item, task, inScan,
                 callerVars, histVars>>

\* ... and the store.
DecrStore ==
  /\ pc = "L235w"
  /\ tasks' = [tasks EXCEPT ![task].times = reg - 1]
  /\ reg' = 0
  /\ pc' = "L182"
  /\ UNCHANGED <<env, wheelVars, nTasks, lockVars, item, task, inScan,
                 callerVars, histVars>>

\* addTask, lines 182-184: a task with times == 0 is dropped.
AddTaskTest ==
  /\ pc = "L182"
  /\ IF tasks[task].times = 0
     THEN /\ pc' = addTaskReturn
          /\ task' = Nil
     ELSE /\ pc' = "L186"
          /\ task' = task
  /\ UNCHANGED <<env, wheelVars, tasks, nTasks, lockVars, item, reg, inScan,
                 callerVars, histVars>>

\* addTask, lines 186-189: compute the slot and the circle from task.interval
\* as it is now and the cursor, and append the task to that slot.  The integer
\* division by intervalSeconds == 0 and the index of a negative slot panic.
AddTaskPlace ==
  /\ pc = "L186"
  /\ LET p == getPositionAndCircle(tasks[task].interval)
     IN  IF p.divZero \/ p.pos < 0
         THEN /\ pc' = "panic"
              /\ UNCHANGED <<tasks, slots, admitAt, admitSteps, admitScan>>
         ELSE /\ tasks' = [tasks EXCEPT ![task].circle = p.circle]
              /\ slots' = [slots EXCEPT ![p.pos] = Append(@, task)]
              /\ admitAt' = [admitAt EXCEPT ![task] = tickNo]
              /\ admitSteps' = [admitSteps EXCEPT ![task] = delaySteps(tasks[task].interval)]
              /\ admitScan' = [admitScan EXCEPT ![task] = inScan]
              /\ pc' = "L192"
  /\ UNCHANGED <<env, interval, slotNum, currentPos, taskRecord, tickerOn, tickC,
                 nTasks, lockVars, item, task, reg, inScan, callerVars, tickNo, fired,
                 delivered, cancelled, remCalled, updated>>

\* addTask, lines 194-195: tw.taskRecord[task.key] = task; Unlock; return.
AddTaskRecord ==
  /\ pc = "L194"
  /\ taskRecord' = [taskRecord EXCEPT ![tasks[task].key] = task]
  /\ wlock' = FALSE
  /\ pc' = addTaskReturn
  /\ task' = Nil
  /\ UNCHANGED <<env, interval, slotNum, slots, currentPos, tickerOn, tickC, tasks,
                 nTasks, rlock, item, reg, inScan, callerVars, histVars>>

Loop ==
  \/ LoopTick
  \/ \E c \in env.clients : LoopRecvAdd(c)
  \/ \E c \in env.clients : LoopRecvStop(c)
  \/ ScanDone
  \/ ScanItem
  \/ LoopLock("L210", "L211")
  \/ LoopDelete("L211")
  \/ Dispatch
  \/ TestLastRun
  \/ SetExhausted
  \/ LoopLock("L230", "L231")
  \/ LoopDelete("L231")
  \/ TestCounted
  \/ DecrLoad
  \/ DecrStore
  \/ AddTaskTest
  \/ AddTaskPlace
  \/ LoopLock("L192", "L194")
  \/ AddTaskRecord

\* ---------------------------------------------------------------- callers
\* A caller's call returns r.
Return(c, r) ==
  /\ cpc' = [cpc EXCEPT ![c] = "idle"]
  /\ call' = [call EXCEPT ![c] = NoCall]
  /\ found' = [found EXCEPT ![c] = Nil]
  /\ result' = [result EXCEPT ![c] = r]

\* recordLock.RLock() (lines 112, 129, 149): waits for the writer to leave.
RLock(c, from, to) ==
  /\ CallerRuns
  /\ cpc[c] = from
  /\ ~wlock
  /\ rlock' = rlock \cup {c}
  /\ cpc' = [cpc EXCEPT ![c] = to]
  /\ UNCHANGED <<env, wheelVars, tasks, nTasks, wlock, loopVars, call, found, result,
                 nCalls, histVars>>

\* AddTask is called (line 107) and checks its parameters (lines 108-110); a
\* rejected call has returned, and call[c] keeps the arguments it was made with
\* until the caller's next call.
AddTaskCall(c) ==
  /\ CallBegins
  /\ cpc[c] = "idle"
  /\ nCalls < env.maxCalls
  /\ nCalls' = nCalls + 1
  /\ \E iv \in env.delays, n \in env.times, k \in env.addKeys, d \in env.addDatas,
        job \in env.jobs :
       /\ call' = [call EXCEPT ![c] =
            [op |-> "add", key |-> k, interval |-> iv, times |-> n, data |-> d,
             job |-> job, sawTick |-> 0]]
       /\ found' = found
       /\ IF illegalParams(iv, n, k, job)
          THEN /\ cpc' = cpc
               /\ result' = [result EXCEPT ![c] = "illegal"]
          ELSE /\ cpc' = [cpc EXCEPT ![c] = "A112"]
               /\ result' = [result EXCEPT ![c] = "none"]
  /\ UNCHANGED <<env, wheelVars, tasks, nTasks, lockVars, loopVars, histVars>>

\* A slip AddTaskLookup could have: the send of line 119 does not wait for the
\* loop (as on a buffered channel), and AddTask returns nil at once.
AddTaskLookupNoWait(c) ==
  /\ CallerRuns
  /\ cpc[c] = "A113"
  /\ rlock' = rlock \ {c}
  /\ IF taskRecord[call[c].key] # Nil
     THEN Return(c, "duplicate")
     ELSE Return(c, "ok")
  /\ UNCHANGED <<env, wheelVars, tasks, nTasks, wlock, loopVars, nCalls, histVars>>

\* AddTask, lines 113-119: look the key up, release the read lock, fail on a
\* present key; otherwise build the task and block in the send on
\* addTaskChannel.
AddTaskLookup(c) ==
  /\ CallerRuns
  /\ cpc[c] = "A113"
  /\ rlock' = rlock \ {c}
  /\ IF taskRecord[call[c].key] # Nil
     THEN /\ Return(c, "duplicate")
          /\ UNCHANGED <<tasks, nTasks, remCalled>>
     ELSE /\ nTasks' = nTasks + 1
          /\ tasks' = [tasks EXCEPT ![nTasks + 1] =
               [interval |-> call[c].interval, times |-> call[c].times, circle |-> 0,
                key |-> call[c].key, taskData |-> call[c].data]]
          /\ found' = [found EXCEPT ![c] = nTasks + 1]
          /\ cpc' = [cpc EXCEPT ![c] = "A119"]
          /\ remCalled' = [remCalled EXCEPT ![nTasks + 1] =
               \E c2 \in Clients : call[c2].op = "remove" /\ call[c2].key = call[c].key]
          /\ call' = [call EXCEPT ![c].sawTick = WaitingTick]
          /\ result' = result
  /\ UNCHANGED <<env, wheelVars, wlock, loopVars, nCalls, tickNo, fired, delivered,
                 admitAt, admitSteps, admitScan, cancelled, updated>>

\* RemoveTask is called (line 124); a nil key returns nil at once (lines 125-127).
RemoveTaskCall(c) ==
  /\ CallBegins
  /\ cpc[c] = "idle"
  /\ nCalls < env.maxCalls
  /\ nCalls' = nCalls + 1
  /\ \E k \in env.remKeys :
       /\ IF k = Nil
          THEN Return(c, "ok")
          ELSE /\ cpc' = [cpc EXCEPT ![c] = "R129"]
               /\ call' = [call EXCEPT ![c] = [NoCall EXCEPT !.op = "remove", !.key = k]]
               /\ result' = [result EXCEPT ![c] = "none"]
               /\ found' = found
       /\ remCalled' = [t \in TaskIds |->
                          remCalled[t] \/ (t <= nTasks /\ k # Nil /\ tasks[t].key = k)]
  /\ UNCHANGED <<env, wheelVars, tasks, nTasks, lockVars, loopVars, tickNo, fired,
                 delivered, admitAt, admitSteps, admitScan, cancelled, updated>>

\* A slip RemoveTaskLookup could have: the nil check of lines 133-134 left out,
\* so an absent key is reported as removed.
RemoveTaskLookupNoCheck(c) ==
  /\ CallerRuns
  /\ cpc[c] = "R131"
  /\ IF taskRecord[call[c].key] = Nil
     THEN /\ Return(c, "ok")
          /\ rlock' = rlock \ {c}
     ELSE /\ found' = [found EXCEPT ![c] = taskRecord[call[c].key]]
          /\ cpc' = [cpc EXCEPT ![c] = "R137"]
          /\ UNCHANGED <<call, result, rlock>>
  /\ UNCHANGED <<env, wheelVars, tasks, nTasks, wlock, loopVars, nCalls, histVars>>

\* RemoveTask, lines 131-134: task := tw.taskRecord[key]; a nil task returns
\* the not-exists error (the deferred RUnlock runs).
RemoveTaskLookup(c) ==
  /\ CallerRuns
  /\ cpc[c] = "R131"
  /\ IF taskRecord[call[c].key] = Nil
     THEN /\ Return(c, "notfound")
          /\ rlock' = rlock \ {c}
     ELSE /\ found' = [found EXCEPT ![c] = taskRecord[call[c].key]]
          /\ cpc' = [cpc EXCEPT ![c] = "R137"]
          /\ UNCHANGED <<call, result, rlock>>
  /\ UNCHANGED <<env, wheelVars, tasks, nTasks, wlock, loopVars, nCalls, histVars>>

\* RemoveTask, line 137: task.times = 0.
RemoveTaskMark(c) ==
  /\ CallerRuns
  /\ cpc[c] = "R137"
  /\ tasks' = [tasks EXCEPT ![found[c]].times = 0]
  /\ cpc' = [cpc EXCEPT ![c] = "R138"]
  /\ UNCHANGED <<env, wheelVars, nTasks, lockVars, loopVars, call, found, result,
                 nCalls, histVars>>

\* The callers that hold the read lock at a statement that reads or writes
\* the taskRecord map (lines 113, 131, 138, 150).
AtRecord == {c \in Clients : cpc[c] \in {"A113", "R131", "R138", "U150"}}

\* RemoveTask, lines 138-140: delete(tw.taskRecord, task.key) while holding the
\* read lock, return nil (the deferred RUnlock runs).  The read lock does not
\* keep other callers from the map: when another caller is at a map access,
\* the delete races with it, and the Go runtime either lets both accesses
\* through or ends the program with "fatal error: concurrent map writes"
\* (or "concurrent map read and map write").
RemoveTaskDelete(c) ==
  /\ CallerRuns
  /\ cpc[c] = "R138"
  /\ \/ /\ taskRecord' = [taskRecord EXCEPT ![tasks[found[c]].key] = Nil]
        /\ rlock' = rlock \ {c}
        /\ cancelled' = [cancelled EXCEPT ![found[c]] = TRUE]
        /\ Return(c, "ok")
        /\ pc' = pc
     \/ /\ AtRecord \ {c} # {}
        /\ pc' = "panic"
        /\ UNCHANGED <<taskRecord, rlock, cancelled, callerVars>>
  /\ UNCHANGED <<env, interval, slotNum, slots, currentPos, tickerOn, tickC, tasks,
                 nTasks, wlock, item, task, reg, inScan, nCalls, tickNo, fired,
                 delivered, admitAt, admitSteps, admitScan, remCalled, updated>>

\* UpdateTask is called (line 144); a nil key is an error (lines 145-147).
UpdateTaskCall(c) ==
  /\ CallBegins
  /\ cpc[c] = "idle"
  /\ nCalls < env.maxCalls
  /\ nCalls' = nCalls + 1
  /\ \E k \in env.updKeys, iv \in env.updates, d \in env.updDatas :
       IF k = Nil
       THEN Return(c, "illegal")
       ELSE /\ cpc' = [cpc EXCEPT ![c] = "U149"]
            /\ call' = [call EXCEPT ![c] =
                 [NoCall EXCEPT !.op = "update", !.key = k, !.interval = iv, !.data = d]]
            /\ result' = [result EXCEPT ![c] = "none"]
            /\ found' = found
  /\ UNCHANGED <<env, wheelVars, tasks, nTasks, lockVars, loopVars, histVars>>

\* UpdateTask, lines 150-155: look the key up, release the read lock, fail on
\* an absent key.
UpdateTaskLookup(c) ==
  /\ CallerRuns
  /\ cpc[c] = "U150"
  /\ rlock' = rlock \ {c}
  /\ IF taskRecord[call[c].key] = Nil
     THEN Return(c, "notfound")
     ELSE /\ found' = [found EXCEPT ![c] = taskRecord[call[c].key]]
          /\ cpc' = [cpc EXCEPT ![c] = "U157"]
          /\ UNCHANGED <<call, result>>
  /\ UNCHANGED <<env, wheelVars, tasks, nTasks, wlock, loopVars, nCalls, histVars>>

\* UpdateTask, line 157: task.taskData = taskData.
UpdateTaskData(c) ==
  /\ CallerRuns
  /\ cpc[c] = "U157"
  /\ tasks' = [tasks EXCEPT ![found[c]].taskData = call[c].data]
  /\ updated' = [updated EXCEPT ![found[c]] = TRUE]
  /\ cpc' = [cpc EXCEPT ![c] = "U158"]
  /\ UNCHANGED <<env, wheelVars, nTasks, lockVars, loopVars, call, found, result,
                 nCalls, tickNo, fired, delivered, admitAt,
                 admitSteps, admitScan, cancelled, remCalled>>

\* A slip UpdateTaskInterval could have: the circle recomputed from the new
\* interval, as addTask does.
UpdateTaskIntervalReplaces(c) ==
  /\ CallerRuns
  /\ cpc[c] = "U158"
  /\ tasks' = [tasks EXCEPT ![found[c]].interval = call[c].interval,
                            ![found[c]].circle = GoDiv(delaySteps(call[c].interval), slotNum)]
  /\ Return(c, "ok")
  /\ UNCHANGED <<env, wheelVars, nTasks, lockVars, loopVars, nCalls, histVars>>

\* UpdateTask, lines 158-159: task.interval = interval; return nil.
UpdateTaskInterval(c) ==
  /\ CallerRuns
  /\ cpc[c] = "U158"
  /\ tasks' = [tasks EXCEPT ![found[c]].interval = call[c].interval]
  /\ Return(c, "ok")
  /\ UNCHANGED <<env, wheelVars, nTasks, lockVars, loopVars, nCalls, histVars>>

\* Stop is called (line 88) and blocks in its send on stopChannel (line 89).
StopCall(c) ==
  /\ CallBegins
  /\ cpc[c] = "idle"
  /\ nCalls < env.maxCalls
  /\ nCalls' = nCalls + 1
  /\ cpc' = [cpc EXCEPT ![c] = "S89"]
  /\ call' = [call EXCEPT ![c] = [NoCall EXCEPT !.op = "stop", !.sawTick = WaitingTick]]
  /\ result' = [result EXCEPT ![c] = "none"]
  /\ UNCHANGED <<env, wheelVars, tasks, nTasks, lockVars, loopVars, found, histVars>>

Caller(c) ==
  \/ AddTaskCall(c)
  \/ RLock(c, "A112", "A113")
  \/ AddTaskLookup(c)
  \/ RemoveTaskCall(c)
  \/ RLock(c, "R129", "R131")
  \/ RemoveTaskLookup(c)
  \/ RemoveTaskMark(c)
  \/ RemoveTaskDelete(c)
  \/ UpdateTaskCall(c)
  \/ RLock(c, "U149", "U150")
  \/ UpdateTaskLookup(c)
  \/ UpdateTaskData(c)
  \/ UpdateTaskInterval(c)
  \/ StopCall(c)

\* ---------------------------------------------------------------- specification
Next ==
  \/ Start
  \/ Tick
  \/ Loop
  \/ \E c \in env.clients : Caller(c)

\* The callers' argument values in Spec: two callers, a task delay and an update
\* interval of 1 s and 2 s, run counts 1 and 2, one key (and the nil key for
\* RemoveTask and UpdateTask), one payload for AddTask and another for
\* UpdateTask.
BaseEnv ==
  [clients |-> {1, 2}, maxTicks |-> MaxTicks, endless |-> FALSE, maxCalls |-> MaxCalls,
   actTicks |-> MaxTicks, maxFired |-> MaxFired,
   keys |-> {1}, addKeys |-> {1}, remKeys |-> {Nil, 1}, updKeys |-> {Nil, 1},
   delays |-> {Second}, times |-> {1, 2}, jobs |-> {TRUE},
   addDatas |-> {1}, updates |-> {2 * Second}, updDatas |-> {2}]

\* New(time.Second, 2).
Init == InitWith(Second, 2, BaseEnv)

Spec == Init /\ [][Next]_vars

\* ---------------------------------------------------------------- properties
\* The task objects built so far.
Allocated == 1..nTasks

\* Task t is an element of some slot's list.
InSlots(t) == \E i \in DOMAIN slots : \E j \in 1..Len(slots[i]) : slots[i][j] = t

\* The step that dispatches a callback (line 223).
DispatchStep == pc = "L223" /\ pc' = "L228"

\* C1: once RemoveTask has returned success for a task, the task's callback is
\* never dispatched afterwards.
C1_RemovedNeverFires == [][DispatchStep => ~cancelled[task]]_vars

\* C6: at most one live task (times # 0) per key is in the slots at any time;
\* two AddTask calls with one key never both place a task.
C6_OneLiveTaskPerKey ==
  \A t1 \in Allocated, t2 \in Allocated :
    (t1 # t2 /\ tasks[t1].key = tasks[t2].key /\ InSlots(t1) /\ InSlots(t2))
      => (tasks[t1].times = 0 \/ tasks[t2].times = 0)

\* A step of caller c inside UpdateTask (its call included).
UpdateTaskStep(c) ==
  cpc'[c] # cpc[c] /\ (call[c].op = "update" \/ call'[c].op = "update")

\* The tick during which the pending occurrence of task t is due: d + 1 ticks
\* after an admission from the select, d ticks after a re-admission by a scan.
DueTick(t) == admitAt[t] + admitSteps[t] + (IF admitScan[t] THEN 0 ELSE 1)

NotFoundStep(c) ==
  cpc[c] \in {"R131", "U150"} /\ cpc'[c] = "idle" /\ result'[c] = "notfound"

\* A step in which caller c's RemoveTask of the nil key returns.
RemoveNilStep(c) ==
  cpc[c] = "idle" /\ cpc'[c] = "idle" /\ nCalls' # nCalls /\ result'[c] = "ok"

\* C10: RemoveTask and UpdateTask return the not-found error exactly when the
\* key has no entry in the record at their lookup, and such a call changes
\* neither the record, the slots, a task nor the cursor; RemoveTask(nil)
\* returns success and changes none of them either.
C10_AbsentKeyNoChange ==
  [][\A c \in Clients :
       /\ (cpc[c] \in {"R131", "U150"} /\ cpc'[c] # cpc[c]) =>
            (taskRecord[call[c].key] = Nil <=> NotFoundStep(c))
       /\ (NotFoundStep(c) \/ RemoveNilStep(c)
           \/ (cpc'[c] # cpc[c] /\ cpc'[c] \in {"R129", "R131", "U149", "U150"}))
            => UNCHANGED <<taskRecord, slots, tasks, currentPos>>
    ]_vars

\* C10's case: a RemoveTask and an UpdateTask have returned not-found while a
\* live task of another lookup outcome sits in the slots.
C10_Witness ==
  /\ \E c \in Clients : result[c] = "notfound"
  /\ \E t \in Allocated : InSlots(t) /\ tasks[t].times # 0

\* ---------------------------------------------------------------- ten slots
\* The callers' argument values in SpecTen: one caller; delays of half a
\* second (0 ticks), 25 s and 50 s (five turns of the wheel); run counts 1
\* and 2.
TenEnv ==
  [clients |-> {1}, maxTicks |-> TenTicks, endless |-> FALSE, maxCalls |-> TenCalls,
   actTicks |-> TenActTicks, maxFired |-> MaxFired,
   keys |-> {1}, addKeys |-> {1}, remKeys |-> {Nil, 1}, updKeys |-> {Nil, 1},
   delays |-> {Second \div 2, 25 * Second, 50 * Second},
   times |-> {1, 2}, jobs |-> {TRUE},
   addDatas |-> {1}, updates |-> {2 * Second}, updDatas |-> {2}]

\* New(time.Second, 10).
InitTen == InitWith(Second, 10, TenEnv)

SpecTen == InitTen /\ [][Next]_vars

\* C3: a task admitted from the select with a delay of d ticks is dispatched
\* for the first time during the (d+1)-th tick processed after its admission,
\* and in none of the d ticks before it: its first dispatch happens in that
\* tick, and between ticks no live task that has not fired yet is overdue.
C3_FirstFiringTick ==
  /\ (pc = "L223" /\ ~admitScan[task]) => tickNo = DueTick(task)
  /\ \A t \in Allocated :
       (pc = "L94" /\ InSlots(t) /\ ~admitScan[t] /\ tasks[t].times # 0)
         => tickNo < DueTick(t)

\* C3's case: with ten slots, a task admitted with a delay of 50 ticks has been
\* dispatched, in the 51st tick after its admission.
C3_Witness ==
  /\ pc = "L228"
  /\ ~admitScan[task]
  /\ admitSteps[task] = 50
  /\ slotNum = 10
  /\ tickNo = admitAt[task] + 51

\* ---------------------------------------------------------------- small wheel
\* Ticks and public calls in a behaviour of SpecSmall.
SmallTicks == 7
SmallCalls == 3

\* The callers' argument values in SpecSmall: one caller; one key; delays of
\* half a second (0 ticks) and 2 s (one turn of the wheel); run counts -1
\* (unlimited) and 2.
SmallEnv ==
  [clients |-> {1}, maxTicks |-> SmallTicks, endless |-> FALSE, maxCalls |-> SmallCalls,
   actTicks |-> SmallTicks, maxFired |-> MaxFired,
   keys |-> {1}, addKeys |-> {1}, remKeys |-> {1}, updKeys |-> {1},
   delays |-> {Second \div 2, 2 * Second},
   times |-> {-1, 2}, jobs |-> {TRUE},
   addDatas |-> {1}, updates |-> {Second}, updDatas |-> {2}]

\* New(time.Second, 2).
InitSmall == InitWith(Second, 2, SmallEnv)

SpecSmall == InitSmall /\ [][Next]_vars

\* C4: two consecutive dispatches of a repeating task that is not updated are
\* exactly its delay in ticks apart (stated for delays of at least one tick).
C4_RepeatSpacing ==
  (pc = "L223" /\ admitScan[task] /\ ~updated[task] /\ admitSteps[task] >= 1)
    => tickNo - admitAt[task] = admitSteps[task]

\* Task t has been registered by addTask at least once.
Admitted(t) ==
  \/ fired[t] > 0
  \/ InSlots(t) /\ ~(task = t /\ pc \in {"L192", "L194"})

\* C5: as long as RemoveTask is not called for the key of an admitted task with
\* times = -1 (here: for no task of that key), the key stays in the record.
C5_UnlimitedStaysIndexed ==
  \A t \in Allocated :
    (/\ Admitted(t) /\ tasks[t].times = -1
     /\ \A u \in Allocated : tasks[u].key = tasks[t].key => ~remCalled[u])
      => taskRecord[tasks[t].key] # Nil

\* ---------------------------------------------------------------- fair runs
\* Ticks counted (the ticker itself never stops sending), calls made, the last
\* tick in which a call begins and dispatches counted per task in SpecFair and
\* SpecFairThree.
FairTicks == 1
FairCalls == 2
FairActTicks == 0
FairFired == 1
ThreeCalls == 3

\* The callers' argument values in SpecFair: two callers; one key; delays of
\* half a second (0 ticks) and 1 s; run counts -1 (unlimited) and 2.
FairEnv ==
  [clients |-> {1, 2}, maxTicks |-> FairTicks, endless |-> TRUE, maxCalls |-> FairCalls,
   actTicks |-> FairActTicks, maxFired |-> FairFired,
   keys |-> {1}, addKeys |-> {1}, remKeys |-> {1}, updKeys |-> {1},
   delays |-> {Second \div 2, Second},
   times |-> {-1, 2}, jobs |-> {TRUE},
   addDatas |-> {1}, updates |-> {Second}, updDatas |-> {2}]

\* The callers' argument values in SpecFairThree: one caller making three
\* calls; two keys.
ThreeEnv ==
  [FairEnv EXCEPT !.clients = {1}, !.maxCalls = ThreeCalls,
                  !.keys = {1, 2}, !.addKeys = {1, 2}]

\* New(time.Second, 2).
InitFair == InitWith(Second, 2, FairEnv)

\* New(time.Second, 2).
InitFairThree == InitWith(Second, 2, ThreeEnv)

\* The steps of the loop's goroutine between two selects (lines 170-240).
LoopRun ==
  \/ ScanDone \/ ScanItem
  \/ LoopLock("L210", "L211") \/ LoopDelete("L211")
  \/ Dispatch \/ TestLastRun \/ SetExhausted
  \/ LoopLock("L230", "L231") \/ LoopDelete("L231")
  \/ TestCounted \/ DecrLoad \/ DecrStore
  \/ AddTaskTest \/ AddTaskPlace
  \/ LoopLock("L192", "L194") \/ AddTaskRecord

\* The steps of a call that has begun (lines 112-159), up to its return or its
\* blocking send.
CallerRun(c) ==
  \/ RLock(c, "A112", "A113") \/ AddTaskLookup(c)
  \/ RLock(c, "R129", "R131") \/ RemoveTaskLookup(c)
  \/ RemoveTaskMark(c) \/ RemoveTaskDelete(c)
  \/ RLock(c, "U149", "U150") \/ UpdateTaskLookup(c)
  \/ UpdateTaskData(c) \/ UpdateTaskInterval(c)

\* The scheduler runs every goroutine that can run; the ticker keeps sending;
\* the select (line 94) chooses at random among its ready cases, so a case that
\* is ready again and again is chosen.  Nothing obliges anyone to call Start or
\* to begin a call.  C: the callers of the run.
Fairness(C) ==
  /\ WF_vars(Tick)
  /\ WF_vars(LoopRun)
  /\ SF_vars(LoopTick)
  /\ \A c \in C : SF_vars(LoopRecvAdd(c))
  /\ \A c \in C : SF_vars(LoopRecvStop(c))
  /\ \A c \in C : WF_vars(CallerRun(c))

SpecFair == InitFair /\ [][Next]_vars /\ Fairness({1, 2})

SpecFairThree == InitFairThree /\ [][Next]_vars /\ Fairness({1})

\* Task t stands in a slot, its placement by addTask complete.
Placed(t) == InSlots(t) /\ ~(task = t /\ pc \in {"L192", "L194"})

\* The loop has ended (line 101) or a Stop call is under way.
StopAsked == pc = "exit" \/ \E c \in Clients : cpc[c] = "S89"

\* Task t has fired its last run and is gone from slots and record.
Finished(t) ==
  /\ t \in Allocated
  /\ tasks[t].times = 0
  /\ ~InSlots(t)
  /\ taskRecord[tasks[t].key] = Nil

\* Task t stands in a slot with runs left, was never cancelled and never
\* updated, and no Stop has been asked for.
Owed(t) ==
  /\ Placed(t) /\ tasks[t].times >= 1
  /\ ~remCalled[t] /\ ~updated[t] /\ ~StopAsked

\* C2: a task with a run count N >= 1 that is never cancelled and never
\* updated is not dispatched once its count is 0; right after its last run
\* it is in no slot and its key is not in the record; and, the ticker sending
\* on, every such task gets all its runs: from some time on none is still
\* standing in a slot with runs left.
C2_FiresExactlyN ==
  /\ [][(DispatchStep /\ ~remCalled[task] /\ ~updated[task])
           => tasks[task].times # 0]_vars
  /\ [][\A t \in TaskIds :
          (pc = "L231" /\ pc' = "L204" /\ task = t) => Finished(t)']_vars
  /\ <>[](\A t \in Allocated : ~Owed(t))

\* C8: once the loop has taken the stop signal it has ended: the cursor, the
\* slots and the record stay as they are, nothing is dispatched and no AddTask
\* is accepted; and a Stop call waiting on a running wheel returns.
C8_StopTerminates ==
  /\ [][pc = "exit" =>
          /\ pc' = "exit"
          /\ UNCHANGED <<currentPos, slots, fired, tickerOn>>
          /\ \A c \in Clients : cpc[c] = "A119" => cpc'[c] = "A119"]_vars
  /\ \A c \in Clients :
       []((cpc[c] = "S89" /\ pc \notin {"new", "exit", "panic"})
            => <>(cpc[c] # "S89"))

\* C9: an AddTask call leaves its send (line 119), and returns nil, only in
\* the step in which the loop, at its select with no admission under way,
\* takes its task, and no other call returns in that step; while the loop is
\* not at its select (never started, ended, or busy) the call stays blocked;
\* and when the loop comes back to its select again and again, a blocked call
\* returns.
C9_AddTaskBackpressure ==
  /\ [][\A c \in Clients :
          /\ (cpc[c] = "A119" /\ cpc'[c] # "A119")
               => /\ pc = "L94" /\ task = Nil
                  /\ pc' = "L182" /\ task' = found[c] /\ ~inScan'
                  /\ result'[c] = "ok"
                  /\ \A c2 \in Clients \ {c} : cpc'[c2] = cpc[c2]
          /\ (call[c].op = "add" /\ result'[c] = "ok" /\ result[c] # "ok")
               => cpc[c] = "A119"]_vars
  /\ \A c \in Clients :
       ([]<>(pc = "L94")) => [](cpc[c] = "A119" => <>(cpc[c] # "A119"))

\* One caller's AddTask has returned nil, its admission is under way, and the
\* other caller is blocked in its send.
C9_Witness ==
  /\ pc \in {"L182", "L186", "L192", "L194"} /\ ~inScan
  /\ \E c \in Clients : result[c] = "ok" /\ cpc[c] = "idle"
  /\ \E c \in Clients : cpc[c] = "A119"

\* ---------------------------------------------------------------- arguments
\* Ticks and calls in a behaviour of SpecArgs.
ArgTicks == 2
ArgCalls == 2

\* The callers' argument values in SpecArgs: one caller; AddTask with delays
\* of -1 s, 0 and 1 s, run counts -2 .. 2, the nil key and key 1, a nil and
\* a non-nil job.
ArgEnv ==
  [clients |-> {1}, maxTicks |-> ArgTicks, endless |-> FALSE, maxCalls |-> ArgCalls,
   actTicks |-> ArgTicks, maxFired |-> MaxFired,
   keys |-> {1}, addKeys |-> {Nil, 1}, remKeys |-> {Nil, 1}, updKeys |-> {Nil, 1},
   delays |-> {-Second, 0, Second},
   times |-> {-2, -1, 0, 1, 2}, jobs |-> {FALSE, TRUE},
   addDatas |-> {1}, updates |-> {Second}, updDatas |-> {2}]

\* New(time.Second, 2).
InitArgs == InitWith(Second, 2, ArgEnv)

SpecArgs == InitArgs /\ [][Next]_vars

\* Caller c enters AddTask (line 107) in this step.
AddTaskCallStep(c) ==
  /\ nCalls' = nCalls + 1
  /\ cpc[c] = "idle"
  /\ call'[c].op = "add"
  /\ \A c2 \in Clients \ {c} : cpc'[c2] = cpc[c2] /\ call'[c2] = call[c2]

\* C11: AddTask returns the parameter error exactly when the interval is not
\* positive, the key or the job is nil, or times is 0 or below -1; the call
\* has then returned at once, whatever the loop is doing, without building a
\* task or touching the wheel, the record or the loop; any other call goes on
\* to the lookup.
C11_InvalidRejected ==
  [][\A c \in Clients :
       AddTaskCallStep(c) =>
         /\ result'[c] = "illegal"
              <=> \/ call'[c].interval <= 0
                  \/ call'[c].key = Nil
                  \/ ~call'[c].job
                  \/ call'[c].times = 0
                  \/ call'[c].times < -1
         /\ result'[c] = "illegal"
              => /\ cpc'[c] = "idle"
                 /\ UNCHANGED <<wheelVars, tasks, nTasks, lockVars, loopVars, found>>
         /\ result'[c] # "illegal" => cpc'[c] = "A112"]_vars

\* An AddTask with times = 0 has been rejected after the loop had ended.
C11_Witness ==
  /\ pc = "exit"
  /\ \E c \in Clients :
       result[c] = "illegal" /\ call[c].op = "add" /\ call[c].times = 0

\* ---------------------------------------------------------------- the scan
\* C12: the step that ends a tick's processing moves the cursor on by one
\* modulo slotNum, and every scan that begins comes to that end.
C12_TickTerminates ==
  /\ [][(pc = "L204" /\ pc' = "L94")
          => /\ currentPos' = (currentPos + 1) % slotNum
             /\ currentPos' \in 0..(slotNum - 1)]_vars
  /\ []<>(~inScan)

\* ---------------------------------------------------------------- fractions
\* Ticks and calls in a behaviour of SpecFrac.
FracTicks == 2
FracCalls == 2

\* The wheel intervals of SpecFrac: 500 ms, 1 s and 1.5 s.
FracIntervals == {Second \div 2, Second, (3 * Second) \div 2}

\* The callers' argument values in SpecFrac: one caller; one key; delays of
\* 1.5 s, 2.5 s and 3 s; run counts 1 and 2; an update interval of 1.5 s.
FracEnv ==
  [clients |-> {1}, maxTicks |-> FracTicks, endless |-> FALSE, maxCalls |-> FracCalls,
   actTicks |-> FracTicks, maxFired |-> MaxFired,
   keys |-> {1}, addKeys |-> {1}, remKeys |-> {1}, updKeys |-> {1},
   delays |-> {(3 * Second) \div 2, (5 * Second) \div 2, 3 * Second},
   times |-> {1, 2}, jobs |-> {TRUE},
   addDatas |-> {1}, updates |-> {(3 * Second) \div 2}, updDatas |-> {2}]

\* New(iv, 2) for each of the intervals.
InitFrac == \E iv \in FracIntervals : InitWith(iv, 2, FracEnv)

SpecFrac == InitFrac /\ [][Next]_vars

\* addTask places its task in this step (lines 186-189).
PlaceStep == pc = "L186" /\ pc' = "L192"

\* C13: addTask places a task of delay D, on a wheel of interval I, at the
\* back of slot (currentPos + floor(D / I)) mod slotNum with circle
\* floor(floor(D / I) / slotNum).
C13_PlacementArithmetic ==
  [][PlaceStep =>
       LET steps == tasks[task].interval \div interval
       IN  /\ tasks'[task].circle = steps \div slotNum
           /\ slots' = [slots EXCEPT ![(currentPos + steps) % slotNum] =
                                        Append(@, task)]]_vars

\* C14: the loop's goroutine never panics.
C14_LoopNeverAborts == pc # "panic"

\* ---------------------------------------------------------------- tombstones
\* The scan deletes the key of the tombstone it has unlinked (line 211).
PurgeStep == pc = "L211" /\ pc' = "L204"

\* C15: when a task has been cancelled by RemoveTask and an AddTask made
\* after that has registered a new task under the same key, the purge of the
\* old tombstone leaves the new task's entry in the record.
C15_PurgeKeepsNewEntry ==
  [][(PurgeStep /\ cancelled[task]) =>
       LET new == taskRecord[tasks[task].key]
       IN  (new # Nil /\ new # task /\ tasks[new].times # 0 /\ ~remCalled[new])
             => taskRecord'[tasks[task].key] = new]_vars

\* C16: a RemoveTask that finds its task sets the task's times to 0 and then
\* deletes the key, leaving slots and cursor as they are; and a task that
\* RemoveTask has cancelled is never placed in a slot again.
C16_LazyDeletion ==
  [][/\ \A c \in Clients :
          (cpc[c] = "R137" /\ cpc'[c] = "R138")
            => tasks'[found[c]].times = 0 /\ UNCHANGED <<slots, currentPos>>
     /\ \A c \in Clients :
          (cpc[c] = "R138" /\ cpc'[c] = "idle")
            => taskRecord'[call[c].key] = Nil /\ UNCHANGED <<slots, currentPos>>
     /\ PlaceStep => ~cancelled[task]]_vars

\* ---------------------------------------------------------------- locking
\* C17: the loop writes the record only while it holds the lock exclusively,
\* and while a caller is at its write of the record (line 138) no other
\* caller is at a read or a write of it.
C17_RecordWritesExclusive ==
  /\ pc \in {"L194", "L211", "L231"} => (wlock /\ rlock = {})
  /\ \A c \in Clients : cpc[c] = "R138" => AtRecord = {c}

\* ---------------------------------------------------------------- select
\* C18: the loop does not take an AddTask request or a stop signal while the
\* tick that was already waiting when that call blocked is still waiting;
\* and a step that changes a slot or the cursor is a step of the loop alone.
C18_ServedInOrder ==
  [][/\ \A c \in Clients :
          (pc = "L94" /\ cpc[c] \in {"A119", "S89"} /\ cpc'[c] = "idle")
            => ~(tickC = 1 /\ call[c].sawTick = tickNo + 1)
     /\ (slots' # slots \/ currentPos' # currentPos)
          => (pc' # pc /\ cpc' = cpc)]_vars

\* ---------------------------------------------------------------- run counts
\* C19: the run count of a task built with times >= 1 never grows and never
\* leaves 0 .. N: a count that is not negative steps to a count between 0 and
\* itself, so a count of 0 stays 0 and none becomes -1.
C19_RunCountBounds ==
  [][\A t \in Allocated :
       tasks[t].times >= 0 => tasks'[t].times \in 0..tasks[t].times]_vars

\* ------------------------------------------------------- one firing per tick
PairTicks == 2
PairCalls == 3

\* One caller, two keys, delays of 0 and of slotNum ticks: a repeating task is
\* re-admitted to the slot being scanned, behind the other key's task.
PairEnv ==
  [clients |-> {1}, maxTicks |-> PairTicks, endless |-> FALSE, maxCalls |-> PairCalls,
   actTicks |-> PairTicks, maxFired |-> MaxFired,
   keys |-> {1, 2}, addKeys |-> {1, 2}, remKeys |-> {1}, updKeys |-> {1},
   delays |-> {Second \div 2, 2 * Second},
   times |-> {-1, 2}, jobs |-> {TRUE},
   addDatas |-> {1}, updates |-> {Second}, updDatas |-> {2}]

\* New(time.Second, 2).
InitPair == InitWith(Second, 2, PairEnv)

SpecPair == InitPair /\ [][Next]_vars

\* The task was put back by addTask (line 237) during the scan of this tick.
ReadmittedThisScan(t) == inScan /\ admitScan[t] /\ admitAt[t] = tickNo

\* Every task built so far has a key of its own.
DistinctKeys == \A t, u \in Allocated : tasks[t].key = tasks[u].key => t = u

\* C20: within the scan of one tick a task is dispatched at most once: a task
\* re-admitted during the scan is not dispatched again in that scan, and its
\* rotation counter is not decremented in that scan (checked for wheels whose
\* tasks all have different keys).
C20_OneFiringPerTick ==
  [][DistinctKeys =>
       /\ DispatchStep => ~ReadmittedThisScan(task)
       /\ \A t \in Allocated :
            tasks'[t].circle < tasks[t].circle => ~ReadmittedThisScan(t)]_vars

====
